---------------------------- MODULE Spec2Model ----------------------------
(***************************************************************************)
(* A model of FootGame.py: the ball, the skill system, the players and the *)
(* game engine's state machine.                                            *)
(*                                                                         *)
(* Number representation.  The program computes with Python floats; the    *)
(* model computes with integers in fixed point:                            *)
(*   - lengths and velocities in units of 1/PosScale,                      *)
(*   - times (dt, cooldowns, wall clock) in units of 1/TimeScale second,   *)
(*     so that both a whole number of milliseconds and the nominal frame   *)
(*     time 1/60 s are exact,                                              *)
(*   - flow in units of 1/FlowScale, chosen so that "dt * 5" is exact.     *)
(* A product that is not a whole number of units is truncated toward 0.    *)
(***************************************************************************)
EXTENDS Integers, Sequences, FiniteSets, TLC

\* ------------------------------------------------------------ resolution
PosScale == 10
TimeScale == 3000
FlowScale == TimeScale \div 5

\* --------------------------------------------------------------- bounds
\* Ticks of GameEngine.run explored in one behaviour.
MaxTicks == 4
\* Events that wait in the queue while no handler fetches them.
MaxPending == 1
\* Calls made on the skill system in one behaviour of SpecSkill.
MaxOps == 6
\* Calls of Ball.update in one behaviour of SpecBall.
MaxBallCalls == 2
\* The wall clock (time.time()) when the program starts.
Epoch == 7

\* The snapshots explored are those of players at most this many calls old.
MaxSnapOps == 3

\* Iterations of the run loop explored in the longer match.
MaxMatchTicks == 8

\* ---------------------------------------------------- program constants
SCREEN_W == 800
SCREEN_H == 600
AI_MAX_FLOW == 100

\* ------------------------------------------------------------ arithmetic
Min(a, b) == IF a < b THEN a ELSE b

Max(a, b) == IF a > b THEN a ELSE b

\* a / b truncated toward zero (b > 0).
Quo(a, b) == IF a >= 0 THEN a \div b ELSE -((-a) \div b)

\* Newton's iteration for the integer square root of n from a guess x that
\* is not below it.
RECURSIVE ISqrtFrom(_, _)
ISqrtFrom(n, x) ==
    LET y == (x + n \div x) \div 2
    IN  IF y >= x THEN x ELSE ISqrtFrom(n, y)

\* The integer part of the square root of n (0 <= n < 2^31).
ISqrt(n) ==
    IF n = 0 THEN 0
    ELSE ISqrtFrom(n, IF n < 10000 THEN 100
                      ELSE IF n < 1000000 THEN 1000
                      ELSE IF n < 100000000 THEN 10000 ELSE 46341)

\* math.hypot on fixed-point lengths.
Hypot(dx, dy) == ISqrt(dx * dx + dy * dy)

\* dict.get(k, default)
Get(d, k, default) == IF k \in DOMAIN d THEN d[k] ELSE default

\* {}
EmptyDict == [k \in {} |-> 0]

\* d[k] = v
Put(d, k, v) == [x \in DOMAIN d \cup {k} |-> IF x = k THEN v ELSE d[x]]

\* ------------------------------------------------------------------ Ball
\* Ball(x, y), x and y in whole field units.
NewBall(x, y) ==
    [pos |-> <<x * PosScale, y * PosScale>>, vel |-> <<0, 0>>,
     radius |-> 8 * PosScale, friction |-> 95]

\* Mutant of GoalSide: the comparisons are not strict.
GoalSideNonStrict(x, width) ==
    IF x <= 0 THEN "B" ELSE IF x >= width THEN "A" ELSE "None"

\* The side Ball.update reports for horizontal position x.
GoalSide(x, width) ==
    IF x < 0 THEN "B" ELSE IF x > width THEN "A" ELSE "None"

\* Ball.update(dt, bounds): the ball afterwards and the value returned.
BallUpdate(b, dt, bounds) ==
    LET x1 == b.pos[1] + Quo(b.vel[1] * dt * 60, TimeScale)
        y1 == b.pos[2] + Quo(b.vel[2] * dt * 60, TimeScale)
        v1 == <<Quo(b.vel[1] * b.friction, 100), Quo(b.vel[2] * b.friction, 100)>>
        side == GoalSide(x1, bounds[1] * PosScale)
        yc == Max(b.radius, Min(bounds[2] * PosScale - b.radius, y1))
    IN  IF side # "None"
        THEN [ball |-> [b EXCEPT !.pos = <<x1, y1>>, !.vel = v1], ret |-> side]
        ELSE [ball |-> [b EXCEPT !.pos = <<x1, yc>>, !.vel = v1], ret |-> "None"]


\* ----------------------------------------------------------- SkillSystem
\* The skills SkillSystem.__init__ registers: costs in whole units, cooldown
\* in seconds.
Skills ==
    [n \in {"Power Shot", "Iron Tackle", "Field Vision", "Awaken"} |->
        CASE n = "Power Shot"   -> [flow_cost |-> 30, stamina_cost |-> 10, cooldown |-> 5, awaken |-> FALSE]
          [] n = "Iron Tackle"  -> [flow_cost |-> 0, stamina_cost |-> 40, cooldown |-> 8, awaken |-> FALSE]
          [] n = "Field Vision" -> [flow_cost |-> 40, stamina_cost |-> 20, cooldown |-> 10, awaken |-> FALSE]
          [] n = "Awaken"       -> [flow_cost |-> AI_MAX_FLOW, stamina_cost |-> 0, cooldown |-> 0, awaken |-> TRUE]]

\* Player(name, team, ptype, ai_lvl, pos, control), pos in whole field units.
NewPlayer(name, team, ptype, ai_lvl, pos, control) ==
    [name |-> name, team |-> team, ptype |-> ptype, ai_lvl |-> ai_lvl,
     control |-> control, pos |-> <<pos[1] * PosScale, pos[2] * PosScale>>,
     size |-> 24, level |-> 1, exp |-> 0, score |-> 0,
     max_stamina |-> 100, max_flow |-> AI_MAX_FLOW * FlowScale,
     stamina |-> 100, flow |-> 0, skill_cd |-> EmptyDict, awakened_until |-> 0]

\* Mutant of Awaken: the stamina is left as it was.
AwakenNoRefill(p, t) ==
    [p EXCEPT !.awakened_until = t + 10 * TimeScale, !.flow = 0]

\* Player.awaken() called at wall-clock time t.
Awaken(p, t) ==
    [p EXCEPT !.awakened_until = t + 10 * TimeScale, !.flow = 0,
              !.stamina = p.max_stamina]

\* Mutant of CanUse: the cooldown is not looked at.
CanUseNoCooldown(p, name) ==
    IF name \notin DOMAIN Skills THEN FALSE
    ELSE IF p.flow < Skills[name].flow_cost * FlowScale THEN FALSE
    ELSE IF p.stamina < Skills[name].stamina_cost THEN FALSE
    ELSE TRUE

\* SkillSystem.can_use(p, name)
CanUse(p, name) ==
    IF name \notin DOMAIN Skills THEN FALSE
    ELSE IF p.flow < Skills[name].flow_cost * FlowScale THEN FALSE
    ELSE IF p.stamina < Skills[name].stamina_cost THEN FALSE
    ELSE IF Get(p.skill_cd, name, 0) > 0 THEN FALSE
    ELSE TRUE

\* The mutations SkillSystem.use makes once can_use has passed.
Apply(p, name, t) ==
    LET sk == Skills[name]
        q  == [p EXCEPT !.flow = p.flow - sk.flow_cost * FlowScale,
                        !.stamina = p.stamina - sk.stamina_cost,
                        !.skill_cd = Put(p.skill_cd, name, sk.cooldown * TimeScale)]
    IN  IF sk.awaken THEN Awaken(q, t) ELSE q

\* Mutant of Use: a registered skill is paid for and started before the
\* validation decides what to return.
UseThenValidate(p, name, t) ==
    IF name \notin DOMAIN Skills THEN [p |-> p, ret |-> FALSE]
    ELSE [p |-> Apply(p, name, t), ret |-> CanUse(p, name)]

\* Mutant of Use: the cooldown the skill starts is one second short.
UseShortCooldown(p, name, t) ==
    IF ~CanUse(p, name) THEN [p |-> p, ret |-> FALSE]
    ELSE [p |-> [Apply(p, name, t) EXCEPT
                    !.skill_cd[name] = Max(0, Skills[name].cooldown - 1) * TimeScale],
          ret |-> TRUE]

\* SkillSystem.use(p, name) called at wall-clock time t: the player
\* afterwards and the value returned.
Use(p, name, t) ==
    IF ~CanUse(p, name) THEN [p |-> p, ret |-> FALSE]
    ELSE [p |-> Apply(p, name, t), ret |-> TRUE]

\* ---------------------------------------------------------------- Player
\* Mutant of Tick: flow regenerates without the cap at max_flow.
TickNoCap(p, dt) ==
    [p EXCEPT !.skill_cd = [k \in DOMAIN p.skill_cd |-> Max(0, p.skill_cd[k] - dt)],
              !.flow = p.flow + (dt * 5 * FlowScale) \div TimeScale]

\* Mutant of Tick: flow regenerates by dt * 50.
TickFast(p, dt) ==
    [p EXCEPT !.skill_cd = [k \in DOMAIN p.skill_cd |-> Max(0, p.skill_cd[k] - dt)],
              !.flow = Min(p.max_flow, p.flow + (dt * 50 * FlowScale) \div TimeScale)]

\* The first two statements of Player.update: cooldowns decay by dt with a
\* floor of 0 and flow regenerates by dt * 5 up to max_flow.
Tick(p, dt) ==
    [p EXCEPT !.skill_cd = [k \in DOMAIN p.skill_cd |-> Max(0, p.skill_cd[k] - dt)],
              !.flow = Min(p.max_flow, p.flow + (dt * 5 * FlowScale) \div TimeScale)]

\* Player._move(target) at wall-clock time t.
Move(p, target, t) ==
    LET dx  == target[1] - p.pos[1]
        dy  == target[2] - p.pos[2]
        h   == Hypot(dx, dy)
        m   == IF h = 0 THEN PosScale ELSE h
        spd == ((20 + p.ai_lvl * 3 + (IF t < p.awakened_until THEN 20 ELSE 0)) * PosScale) \div 10
    IN  [p EXCEPT !.pos = <<p.pos[1] + Quo(dx * spd, m), p.pos[2] + Quo(dy * spd, m)>>]

Centre == <<(SCREEN_W * PosScale) \div 2, (SCREEN_H * PosScale) \div 2>>

\* Mutant of Ai: the striker kicks toward the other edge.
AiOtherEdge(p, b, t) ==
    LET dx == p.pos[1] - b.pos[1]
        dy == p.pos[2] - b.pos[2]
        d  == Hypot(dx, dy)
    IN  IF p.ptype = "striker" /\ d < 50 * PosScale
        THEN {[p |-> p, ball |-> [b EXCEPT !.vel = <<(IF p.team = "A" THEN -1 ELSE 1) * 10 * PosScale, 0>>]]}
        ELSE IF p.ptype = "defender"
        THEN IF \/ p.team = "A" /\ b.pos[1] < Centre[1]
                \/ p.team = "B" /\ b.pos[1] > Centre[1]
             THEN {[p |-> Move(p, b.pos, t), ball |-> b]}
             ELSE {[p |-> Move(p, Centre, t), ball |-> b]}
        ELSE IF d < 30 * PosScale
        THEN {[p |-> p, ball |-> [b EXCEPT !.vel = <<Quo(dx * 12, 100), Quo(dy * 12, 100)>>]]}
        ELSE {[p |-> Move(p, target, t), ball |-> b] : target \in {Centre, b.pos}}

\* Player._ai: the outcomes [p, ball] of one call; there are two when the
\* random target choice is made and its two targets differ.
Ai(p, b, t) ==
    LET dx == p.pos[1] - b.pos[1]
        dy == p.pos[2] - b.pos[2]
        d  == Hypot(dx, dy)
    IN  IF p.ptype = "striker" /\ d < 50 * PosScale
        THEN {[p |-> p, ball |-> [b EXCEPT !.vel = <<(IF p.team = "A" THEN 1 ELSE -1) * 10 * PosScale, 0>>]]}
        ELSE IF p.ptype = "defender"
        THEN IF \/ p.team = "A" /\ b.pos[1] < Centre[1]
                \/ p.team = "B" /\ b.pos[1] > Centre[1]
             THEN {[p |-> Move(p, b.pos, t), ball |-> b]}
             ELSE {[p |-> Move(p, Centre, t), ball |-> b]}
        ELSE IF d < 30 * PosScale
        THEN {[p |-> p, ball |-> [b EXCEPT !.vel = <<Quo(dx * 12, 100), Quo(dy * 12, 100)>>]]}
        ELSE {[p |-> Move(p, target, t), ball |-> b] : target \in {Centre, b.pos}}

\* Player.update(dt, ball, players): the outcomes [p, ball] of one call.
PlayerUpdate(p, dt, b, t) ==
    IF p.control = "ai" THEN Ai(Tick(p, dt), b, t)
    ELSE {[p |-> Tick(p, dt), ball |-> b]}


\* ------------------------------------------------------------- snapshots
\* A snapshot is a dict from keys to values, here a function on strings. The
\* members of PlayerType and ControlType are named by their values.
PlayerTypeValues == {"striker", "midfielder", "defender", "goalkeeper"}

ControlTypeValues == {"keyboard", "ai"}

\* What a call that raised returns in place of a player.
NoPlayer == [name |-> ""]

\* Player.to_dict(): size is not among the keys.
ToDict(p) ==
    [name |-> p.name, team |-> p.team, ptype |-> p.ptype, ai_lvl |-> p.ai_lvl,
     pos |-> p.pos, control |-> p.control, level |-> p.level, exp |-> p.exp,
     score |-> p.score, max_stamina |-> p.max_stamina, max_flow |-> p.max_flow,
     stamina |-> p.stamina, flow |-> p.flow, skill_cd |-> p.skill_cd,
     awakened_until |-> p.awakened_until]

\* Mutant of FromDict: the cooldowns are not read back.
FromDictFreshCooldowns(d) ==
    IF "name" \notin DOMAIN d \/ "team" \notin DOMAIN d
    THEN [p |-> NoPlayer, raised |-> "KeyError"]
    ELSE IF Get(d, "ptype", "striker") \notin PlayerTypeValues
    THEN [p |-> NoPlayer, raised |-> "ValueError"]
    ELSE IF Get(d, "control", "ai") \notin ControlTypeValues
    THEN [p |-> NoPlayer, raised |-> "ValueError"]
    ELSE LET p0 == NewPlayer(d["name"], d["team"], Get(d, "ptype", "striker"),
                             Get(d, "ai_lvl", 1), <<0, 0>>, Get(d, "control", "ai"))
             p1 == [p0 EXCEPT !.pos = Get(d, "pos", <<0, 0>>),
                              !.level = Get(d, "level", 1),
                              !.exp = Get(d, "exp", 0),
                              !.score = Get(d, "score", 0),
                              !.max_stamina = Get(d, "max_stamina", 100),
                              !.max_flow = Get(d, "max_flow", AI_MAX_FLOW * FlowScale)]
         IN  [p |-> [p1 EXCEPT !.stamina = Get(d, "stamina", p1.max_stamina),
                               !.flow = Get(d, "flow", 0),
                               !.awakened_until = Get(d, "awakened_until", 0)],
              raised |-> "None"]

\* Player.from_dict(d): the player returned, or the exception raised. d["name"]
\* and d["team"] raise KeyError on a missing key, PlayerType(v) and
\* ControlType(v) raise ValueError on a value that no member has; every other
\* key is read with d.get and a default. The position is stored as it is in
\* the dict (float() of a float).
FromDict(d) ==
    IF "name" \notin DOMAIN d \/ "team" \notin DOMAIN d
    THEN [p |-> NoPlayer, raised |-> "KeyError"]
    ELSE IF Get(d, "ptype", "striker") \notin PlayerTypeValues
    THEN [p |-> NoPlayer, raised |-> "ValueError"]
    ELSE IF Get(d, "control", "ai") \notin ControlTypeValues
    THEN [p |-> NoPlayer, raised |-> "ValueError"]
    ELSE LET p0 == NewPlayer(d["name"], d["team"], Get(d, "ptype", "striker"),
                             Get(d, "ai_lvl", 1), <<0, 0>>, Get(d, "control", "ai"))
             p1 == [p0 EXCEPT !.pos = Get(d, "pos", <<0, 0>>),
                              !.level = Get(d, "level", 1),
                              !.exp = Get(d, "exp", 0),
                              !.score = Get(d, "score", 0),
                              !.max_stamina = Get(d, "max_stamina", 100),
                              !.max_flow = Get(d, "max_flow", AI_MAX_FLOW * FlowScale)]
         IN  [p |-> [p1 EXCEPT !.stamina = Get(d, "stamina", p1.max_stamina),
                               !.flow = Get(d, "flow", 0),
                               !.skill_cd = Get(d, "skill_cd", EmptyDict),
                               !.awakened_until = Get(d, "awakened_until", 0)],
              raised |-> "None"]

\* ------------------------------------------------------------ the roster
TEMPLATES ==
    <<[name |-> "Alex", ptype |-> "striker", ai |-> 6],
      [name |-> "Sam", ptype |-> "midfielder", ai |-> 5],
      [name |-> "Lee", ptype |-> "defender", ai |-> 7],
      [name |-> "Jin", ptype |-> "goalkeeper", ai |-> 4]>>

\* The draws of random.choice(["A", "B"]) and of the two random.randint
\* explored for the four templates: a team and a spawn point each.
TeamDraws == {<<"A", "B", "A", "B">>, <<"B", "A", "B", "A">>}

SpawnDraws ==
    {<<<<400, 300>>, <<100, 100>>, <<700, 500>>, <<100, 500>>>>,
     <<<<380, 300>>, <<410, 300>>, <<100, 100>>, <<700, 100>>>>}

\* CharacterFactory.create_all(): the rosters it can return.
CreateAll ==
    {[i \in 1..Len(TEMPLATES) |->
        NewPlayer(TEMPLATES[i].name, tm[i], TEMPLATES[i].ptype, TEMPLATES[i].ai,
                  sp[i], "ai")] : tm \in TeamDraws, sp \in SpawnDraws}

\* Mutant of StartGame: the human player is not added.
StartGameNoHuman == CreateAll

\* GameEngine._start_game(): the rosters it can leave in self.players.
StartGame ==
    {Append(r, NewPlayer("You", "B", "striker", 1, <<400, 500>>, "keyboard")) :
        r \in CreateAll}

\* ----------------------------------------------------------------- input
\* An input event: "QUIT" is an event of type pygame.QUIT, "K_x" an event of
\* type pygame.KEYDOWN with key x.
Events == {"QUIT", "K_ESCAPE", "K_g", "K_1", "K_2", "K_UP", "K_DOWN"}

\* The batches of events that arrive between two ticks: none, any one event,
\* and some pairs.
Batches ==
    {<<>>} \cup {<<e>> : e \in Events}
           \cup {<<"QUIT", "K_ESCAPE">>, <<"K_ESCAPE", "QUIT">>, <<"K_DOWN", "K_UP">>}

\* The kinds of events recorded in handled by a tick outside the menu; a
\* tick in the menu records every kind.
Tracked == {"QUIT", "K_ESCAPE"}

\* pygame.key.get_pressed() as the four directions held: up is w or UP,
\* down is s or DOWN, left is a or LEFT, right is d or RIGHT.
Held == {{}, {"down", "right"}}

\* The values of dt = clock.tick(60) / 1000 explored: the nominal frame of
\* 1/60 s and a stalled frame of 5 s.
DTs == {TimeScale \div 60, 5 * TimeScale}

Range(q) == {q[i] : i \in 1..Len(q)}

\* ------------------------------------------------------------------ state
VARIABLES
    state,      \* GameEngine.state
    sel,        \* GameEngine.menu.sel
    ball,       \* GameEngine.ball
    teams,      \* GameEngine.teams
    players,    \* GameEngine.players
    start,      \* GameEngine.start
    goal_time,  \* GameEngine.goal_time
    now,        \* time.time(); it advances by dt in each iteration of run
    events,     \* pygame's event queue: events posted and not yet fetched
    handled,    \* the kinds of events the last tick fetched from the queue
    goal,       \* what Ball.update returned in the last tick ("None" if not called)
    ticks,      \* calls explored so far
    call        \* the last call made on a unit under SpecSkill or SpecBall

vars == <<state, sel, ball, teams, players, start, goal_time, now, events,
          handled, goal, ticks, call>>

NoCall == [op |-> "none"]

\* GameEngine.__init__
Init ==
    /\ state = "menu"
    /\ sel = 0
    /\ ball = NewBall(400, 300)
    /\ teams = [t \in {"A", "B"} |-> 0]
    /\ players = <<>>
    /\ start = 0
    /\ goal_time = 0
    /\ now = Epoch * TimeScale
    /\ events = <<>>
    /\ handled = {}
    /\ goal = "None"
    /\ ticks = 0
    /\ call = NoCall

\* ------------------------------------------------------------ GameEngine
Options == <<"Start", "Quit">>

\* GUIManager.nav(e): the selection afterwards (the option returned is
\* Options[sel + 1]).
Nav(s, e) ==
    LET s1 == IF e = "K_UP" THEN (s - 1) % Len(Options) ELSE s
    IN  IF e = "K_DOWN" THEN (s1 + 1) % Len(Options) ELSE s1

\* The body of the event loop of _menu_loop for one event.
MenuEvent(st, e) ==
    LET st1 == IF e = "QUIT" THEN [st EXCEPT !.state = "gameover"] ELSE st
    IN  IF e = "QUIT" THEN st1
        ELSE LET s1  == Nav(st1.sel, e)
                 st2 == [st1 EXCEPT !.sel = s1]
                 st3 == IF Options[s1 + 1] = "Start"
                        THEN [st2 EXCEPT !.started = TRUE, !.state = "playing"]
                        ELSE st2
             IN  IF Options[s1 + 1] = "Quit"
                 THEN [st3 EXCEPT !.state = "gameover"]
                 ELSE st3

RECURSIVE MenuEvents(_, _)
MenuEvents(st, es) ==
    IF es = <<>> THEN st ELSE MenuEvents(MenuEvent(st, Head(es)), Tail(es))

\* The index of the first keyboard-controlled player, 0 if there is none.
HumanIdx(ps) ==
    IF \E i \in 1..Len(ps) : ps[i].control = "keyboard"
    THEN CHOOSE i \in 1..Len(ps) :
            /\ ps[i].control = "keyboard"
            /\ \A j \in 1..(i - 1) : ps[j].control # "keyboard"
    ELSE 0

SkillKeys == [k \in {"K_g", "K_1", "K_2"} |->
                CASE k = "K_g" -> "Awaken"
                  [] k = "K_1" -> "Power Shot"
                  [] k = "K_2" -> "Field Vision"]

\* GameEngine._handle_skill_key(key) at wall-clock time t.
HandleSkillKey(ps, key, t) ==
    LET hp == HumanIdx(ps)
    IN  IF hp = 0 THEN ps
        ELSE [ps EXCEPT ![hp] = Use(ps[hp], SkillKeys[key], t).p]

\* The body of the event loop of _play_loop for one event.
PlayEvent(st, e, t) ==
    IF e = "QUIT" THEN [st EXCEPT !.state = "gameover"]
    ELSE IF e = "K_ESCAPE" THEN [st EXCEPT !.state = "paused"]
    ELSE IF e \in DOMAIN SkillKeys
    THEN [st EXCEPT !.players = HandleSkillKey(st.players, e, t)]
    ELSE st

RECURSIVE PlayEvents(_, _, _)
PlayEvents(st, es, t) ==
    IF es = <<>> THEN st ELSE PlayEvents(PlayEvent(st, Head(es), t), Tail(es), t)

\* Mutant of HandleMovement: the position is not clamped.
HandleMovementNoClamp(ps, held) ==
    LET hp == HumanIdx(ps)
    IN  IF hp = 0 THEN ps
        ELSE LET spd  == 4 * PosScale
                 y1 == ps[hp].pos[2] - (IF "up" \in held THEN spd ELSE 0)
                 y2 == y1 + (IF "down" \in held THEN spd ELSE 0)
                 x1 == ps[hp].pos[1] - (IF "left" \in held THEN spd ELSE 0)
                 x2 == x1 + (IF "right" \in held THEN spd ELSE 0)
             IN  [ps EXCEPT ![hp].pos = <<x2, y2>>]

\* GameEngine._handle_movement() with the directions in held pressed.
HandleMovement(ps, held) ==
    LET hp == HumanIdx(ps)
    IN  IF hp = 0 THEN ps
        ELSE LET spd  == 4 * PosScale
                 half == (ps[hp].size * PosScale) \div 2
                 y1 == ps[hp].pos[2] - (IF "up" \in held THEN spd ELSE 0)
                 y2 == y1 + (IF "down" \in held THEN spd ELSE 0)
                 x1 == ps[hp].pos[1] - (IF "left" \in held THEN spd ELSE 0)
                 x2 == x1 + (IF "right" \in held THEN spd ELSE 0)
             IN  [ps EXCEPT ![hp].pos =
                    <<Max(half, Min(SCREEN_W * PosScale - half, x2)),
                      Max(half, Min(SCREEN_H * PosScale - half, y2))>>]

\* Mutant of UpdateFrom: the players are updated from the last to the first.
RECURSIVE UpdateFromLast(_, _, _, _, _)
UpdateFromLast(i, ps, b, dt, t) ==
    IF i > Len(ps) THEN {[players |-> ps, ball |-> b]}
    ELSE LET j == Len(ps) + 1 - i
         IN  UNION {UpdateFromLast(i + 1, [ps EXCEPT ![j] = o.p], o.ball, dt, t) :
                        o \in PlayerUpdate(ps[j], dt, b, t)}

\* "for p in self.players: p.update(dt, self.ball, self.players)" from the
\* i-th player on: the outcomes [players, ball].
RECURSIVE UpdateFrom(_, _, _, _, _)
UpdateFrom(i, ps, b, dt, t) ==
    IF i > Len(ps) THEN {[players |-> ps, ball |-> b]}
    ELSE UNION {UpdateFrom(i + 1, [ps EXCEPT ![i] = o.p], o.ball, dt, t) :
                    o \in PlayerUpdate(ps[i], dt, b, t)}

\* Mutant of Score: the goal is credited to the other side.
ScoreOther(tm, side) == [tm EXCEPT ![IF side = "A" THEN "B" ELSE "A"] = @ + 1]

\* self.teams[goal] += 1
Score(tm, side) == [tm EXCEPT ![side] = @ + 1]

\* Mutant of CelebrationOver: any later tick ends the celebration.
CelebrationOverAtOnce(t, since) == t - since > 0

\* The test of _goal_loop at wall-clock time t.
CelebrationOver(t, since) == t - since > 2 * TimeScale

\* One iteration of GameEngine.run in state MENU, with the frame time drawn
\* from dts and the events that arrived from batches, while fewer than bound
\* iterations have been made.
MenuTick(dts, batches, bound) ==
    /\ state = "menu"
    /\ ticks < bound
    /\ \E dt \in dts, evs \in batches :
        /\ LET batch == events \o evs
               st == MenuEvents([state |-> state, sel |-> sel, started |-> FALSE], batch)
           IN  /\ now' = now + dt
               /\ events' = <<>>
               /\ handled' = Range(batch)
               /\ state' = st.state
               /\ sel' = st.sel
               /\ IF st.started
                  THEN /\ players' \in StartGame
                       /\ start' = now'
                       /\ teams' = [t \in {"A", "B"} |-> 0]
                  ELSE UNCHANGED <<players, start, teams>>
    /\ goal' = "None"
    /\ ticks' = ticks + 1
    /\ UNCHANGED <<ball, goal_time, call>>

MenuLoop == MenuTick(DTs, Batches, MaxTicks)

\* One iteration of GameEngine.run in state PLAYING, with the directions
\* held drawn from helds.
PlayTick(dts, batches, helds, bound) ==
    /\ state = "playing"
    /\ ticks < bound
    /\ \E dt \in dts, evs \in batches, held \in helds :
        /\ LET batch == events \o evs
               t   == now + dt
               st  == PlayEvents([state |-> state, players |-> players], batch, t)
               ps  == HandleMovement(st.players, held)
               r   == BallUpdate(ball, dt, <<SCREEN_W, SCREEN_H>>)
           IN  /\ now' = t
               /\ events' = <<>>
               /\ handled' = Range(batch) \cap Tracked
               /\ goal' = r.ret
               /\ IF r.ret # "None"
                  THEN /\ teams' = Score(teams, r.ret)
                       /\ goal_time' = t
                       /\ state' = "goal"
                  ELSE /\ UNCHANGED <<teams, goal_time>>
                       /\ state' = st.state
               /\ \E o \in UpdateFrom(1, ps, r.ball, dt, t) :
                    /\ players' = o.players
                    /\ ball' = o.ball
    /\ ticks' = ticks + 1
    /\ UNCHANGED <<sel, start, call>>

PlayLoop == PlayTick(DTs, Batches, Held, MaxTicks)

\* One iteration of GameEngine.run in state GOAL: no event is fetched.
GoalTick(dts, batches, bound) ==
    /\ state = "goal"
    /\ ticks < bound
    /\ \E dt \in dts, evs \in batches :
        /\ Len(events) + Len(evs) <= MaxPending
        /\ now' = now + dt
        /\ events' = events \o evs
        /\ IF CelebrationOver(now', goal_time)
           THEN /\ ball' = NewBall(400, 300)
                /\ state' = "playing"
           ELSE UNCHANGED <<ball, state>>
    /\ handled' = {}
    /\ goal' = "None"
    /\ ticks' = ticks + 1
    /\ UNCHANGED <<sel, teams, players, start, goal_time, call>>

GoalLoop == GoalTick(DTs, Batches, MaxTicks)

\* Mutant of PauseEvents: any key press resumes the game.
PauseEventsAnyKey(s, es) == IF Range(es) \ {"QUIT"} # {} THEN "playing" ELSE s

\* The state _pause_loop leaves after the events es.
PauseEvents(s, es) == IF "K_ESCAPE" \in Range(es) THEN "playing" ELSE s

\* One iteration of GameEngine.run in state PAUSED.
PauseTick(dts, batches, bound) ==
    /\ state = "paused"
    /\ ticks < bound
    /\ \E dt \in dts, evs \in batches :
        /\ now' = now + dt
        /\ events' = <<>>
        /\ handled' = Range(events \o evs) \cap Tracked
        /\ state' = PauseEvents(state, events \o evs)
    /\ goal' = "None"
    /\ ticks' = ticks + 1
    /\ UNCHANGED <<sel, ball, teams, players, start, goal_time, call>>

PauseLoop == PauseTick(DTs, Batches, MaxTicks)

\* GameEngine.run: in state GAME_OVER the loop is left.
Next == MenuLoop \/ PlayLoop \/ GoalLoop \/ PauseLoop

Spec == Init /\ [][Next]_vars

\* ------------------------------------------------------ a longer match
\* GameEngine.run over more iterations, every frame stalled for 5 s, with
\* the player pressing nothing or g and holding right throughout.
MatchDTs == {5 * TimeScale}

MatchBatches == {<<>>, <<"K_g">>}

MatchHeld == {{"right"}}

MatchMenu == MenuTick(MatchDTs, MatchBatches, MaxMatchTicks)

MatchPlay == PlayTick(MatchDTs, MatchBatches, MatchHeld, MaxMatchTicks)

MatchGoal == GoalTick(MatchDTs, MatchBatches, MaxMatchTicks)

NextMatch == MatchMenu \/ MatchPlay \/ MatchGoal

SpecMatch == Init /\ [][NextMatch]_vars

\* ------------------------------------------- the skill system on its own
\* A keyboard-controlled player, as test_skill_system constructs it, on
\* which can_use, use, update and awaken are called in any order.
UnitDTs == {0, TimeScale \div 60, TimeScale, 10 * TimeScale}

SkillNames == DOMAIN Skills \cup {"Unknown"}

SpecSkillInit ==
    /\ state = "menu"
    /\ sel = 0
    /\ ball = NewBall(400, 300)
    /\ teams = [t \in {"A", "B"} |-> 0]
    /\ players = <<NewPlayer("Test", "A", "striker", 1, <<100, 100>>, "keyboard")>>
    /\ start = 0
    /\ goal_time = 0
    /\ now = Epoch * TimeScale
    /\ events = <<>>
    /\ handled = {}
    /\ goal = "None"
    /\ ticks = 0
    /\ call = NoCall

\* SkillSystem.can_use(player, name)
CallCanUse ==
    /\ \E name \in SkillNames :
        call' = [op |-> "can_use", name |-> name, pre |-> players[1],
                 ret |-> CanUse(players[1], name)]
    /\ UNCHANGED <<state, sel, ball, teams, players, start, goal_time, now,
                   events, handled, goal, ticks>>

\* SkillSystem.use(player, name)
CallUse ==
    /\ ticks < MaxOps
    /\ \E name \in SkillNames :
        LET r == Use(players[1], name, now)
        IN  /\ players' = <<r.p>>
            /\ call' = [op |-> "use", name |-> name, pre |-> players[1], ret |-> r.ret]
    /\ ticks' = ticks + 1
    /\ UNCHANGED <<state, sel, ball, teams, start, goal_time, now, events,
                   handled, goal>>

\* player.update(dt, ball, players) after dt of wall-clock time
CallUpdate ==
    /\ ticks < MaxOps
    /\ \E dt \in UnitDTs :
        /\ now' = now + dt
        /\ \E o \in PlayerUpdate(players[1], dt, ball, now') :
            /\ players' = <<o.p>>
            /\ ball' = o.ball
        /\ call' = [op |-> "update", name |-> "", pre |-> players[1], ret |-> FALSE]
    /\ ticks' = ticks + 1
    /\ UNCHANGED <<state, sel, teams, start, goal_time, events, handled, goal>>

\* player.awaken()
CallAwaken ==
    /\ ticks < MaxOps
    /\ players' = <<Awaken(players[1], now)>>
    /\ call' = [op |-> "awaken", name |-> "", pre |-> players[1], ret |-> FALSE]
    /\ ticks' = ticks + 1
    /\ UNCHANGED <<state, sel, ball, teams, start, goal_time, now, events,
                   handled, goal>>

NextSkill == CallCanUse \/ CallUse \/ CallUpdate \/ CallAwaken

SpecSkill == SpecSkillInit /\ [][NextSkill]_vars

\* --------------------------------------------------- the ball on its own
\* Ball.update called on balls of any position and velocity.
BallXs == {0, 5, 400, 795, 800}
BallYs == {5, 8, 10, 100, 592, 595}
BallVxs == {-10, -5, 0, 5, 10}
BallVys == {-5, 0, 5}
BallDTs == {0, TimeScale \div 60, TimeScale}
BallBounds == {<<SCREEN_W, SCREEN_H>>, <<400, 100>>}

SpecBallInit ==
    /\ state = "menu"
    /\ sel = 0
    /\ \E x \in BallXs, y \in BallYs, vx \in BallVxs, vy \in BallVys :
        ball = [NewBall(x, y) EXCEPT !.vel = <<vx * PosScale, vy * PosScale>>]
    /\ teams = [t \in {"A", "B"} |-> 0]
    /\ players = <<>>
    /\ start = 0
    /\ goal_time = 0
    /\ now = Epoch * TimeScale
    /\ events = <<>>
    /\ handled = {}
    /\ goal = "None"
    /\ ticks = 0
    /\ call = NoCall

\* ball.update(dt, bounds)
CallBallUpdate ==
    /\ ticks < MaxBallCalls
    /\ \E dt \in BallDTs, bounds \in BallBounds :
        LET r == BallUpdate(ball, dt, bounds)
        IN  /\ ball' = r.ball
            /\ goal' = r.ret
            /\ call' = [op |-> "ball_update", pre |-> ball, dt |-> dt, bounds |-> bounds]
    /\ ticks' = ticks + 1
    /\ UNCHANGED <<state, sel, teams, players, start, goal_time, now, events, handled>>

NextBall == CallBallUpdate

SpecBall == SpecBallInit /\ [][NextBall]_vars

\* ------------------------------------------------- snapshots on their own
\* to_dict and from_dict called on the players of a match, each in the
\* states that use, update and awaken take it to.
SnapshotPlayers == UNION {Range(r) : r \in StartGame}

\* The damage done to a snapshot before it is loaded: the keys that are
\* missing and the enum keys that carry a value no member has.
Damages ==
    {[drop |-> {}, bad |-> {}],
     [drop |-> {"name"}, bad |-> {}],
     [drop |-> {"team"}, bad |-> {}],
     [drop |-> {"ptype", "control"}, bad |-> {}],
     [drop |-> {"stamina", "flow"}, bad |-> {}],
     [drop |-> {"ptype", "ai_lvl", "pos", "control", "level", "exp", "score",
                "max_stamina", "max_flow", "stamina", "flow", "skill_cd",
                "awakened_until"}, bad |-> {}],
     [drop |-> {}, bad |-> {"ptype"}],
     [drop |-> {"stamina"}, bad |-> {"control"}]}

Damage(d, drop, bad) ==
    [k \in DOMAIN d \ drop |-> IF k \in bad THEN "wizard" ELSE d[k]]

SpecSnapshotInit ==
    /\ state = "menu"
    /\ sel = 0
    /\ ball = NewBall(400, 300)
    /\ teams = [t \in {"A", "B"} |-> 0]
    /\ \E p \in SnapshotPlayers : players = <<p>>
    /\ start = 0
    /\ goal_time = 0
    /\ now = Epoch * TimeScale
    /\ events = <<>>
    /\ handled = {}
    /\ goal = "None"
    /\ ticks = 0
    /\ call = NoCall

SnapUse == ticks < MaxSnapOps /\ CallUse

SnapUpdate == ticks < MaxSnapOps /\ CallUpdate

SnapAwaken == ticks < MaxSnapOps /\ CallAwaken

\* Player.from_dict(d) for d the snapshot p.to_dict() of the player, whole
\* or damaged.
CallFromDict ==
    /\ \E dmg \in Damages :
        LET d == Damage(ToDict(players[1]), dmg.drop, dmg.bad)
        IN  call' = [op |-> "from_dict", name |-> "", pre |-> players[1],
                     arg |-> d, ret |-> FromDict(d)]
    /\ UNCHANGED <<state, sel, ball, teams, players, start, goal_time, now,
                   events, handled, goal, ticks>>

NextSnapshot == SnapUse \/ SnapUpdate \/ SnapAwaken \/ CallFromDict

SpecSnapshot == SpecSnapshotInit /\ [][NextSnapshot]_vars

\* ---------------------------------------------- the movement on its own
\* _handle_movement called tick after tick on the roster of a match just
\* started, with any of the four directions held. The positions it can
\* reach are finitely many.
AllHeld == SUBSET {"up", "down", "left", "right"}

SpecMovementInit ==
    /\ state = "playing"
    /\ sel = 0
    /\ ball = NewBall(400, 300)
    /\ teams = [t \in {"A", "B"} |-> 0]
    /\ players \in StartGame
    /\ start = Epoch * TimeScale
    /\ goal_time = 0
    /\ now = Epoch * TimeScale
    /\ events = <<>>
    /\ handled = {}
    /\ goal = "None"
    /\ ticks = 0
    /\ call = NoCall

\* GameEngine._handle_movement()
CallHandleMovement ==
    /\ \E held \in AllHeld : players' = HandleMovement(players, held)
    /\ call' = [op |-> "handle_movement"]
    /\ UNCHANGED <<state, sel, ball, teams, start, goal_time, now, events,
                   handled, goal, ticks>>

NextMovement == CallHandleMovement

SpecMovement == SpecMovementInit /\ [][NextMovement]_vars

\* ---------------------------------------------------------------- claims
CentreBall(b) ==
    /\ b.pos = <<400 * PosScale, 300 * PosScale>>
    /\ b.vel = <<0, 0>>

\* C1: the goal counts are naturals; they change only in a tick that starts
\* in PLAYING and in which Ball.update reports a side, and then the reported
\* side's count grows by 1 and the other side's count stays; the tick that
\* counts a goal ends in GOAL, and from GOAL no count changes and PLAYING is
\* entered again only with the ball respawned at centre field.
C1_GoalCountedOnce ==
    [][/\ teams' \in [{"A", "B"} -> Nat]
       /\ (teams' # teams => state = "playing" /\ goal' \in {"A", "B"})
       /\ (state = "playing" /\ goal' \in {"A", "B"} =>
             /\ teams'[goal'] = teams[goal'] + 1
             /\ \A t \in {"A", "B"} \ {goal'} : teams'[t] = teams[t]
             /\ state' = "goal")
       /\ (state = "playing" /\ goal' = "None" => teams' = teams)
       /\ (state = "goal" =>
             /\ teams' = teams
             /\ state' \in {"goal", "playing"}
             /\ (state' = "playing" => CentreBall(ball')))]_vars

\* A goal for A has just been counted.
C1_Witness == state = "goal" /\ goal = "A" /\ teams["A"] = 1 /\ teams["B"] = 0

\* C2: a tick that handles a quit event ends in GAME_OVER.
C2_QuitEndsGame == "QUIT" \in handled => state = "gameover"

\* C3: GOAL is left for PLAYING only when at least 2 seconds have passed
\* since goal_time, and then the ball is at (400, 300) with velocity (0, 0).
C3_GoalToPlaying ==
    [][state = "goal" /\ state' = "playing" =>
          /\ now' - goal_time >= 2 * TimeScale
          /\ ball'.pos = <<400 * PosScale, 300 * PosScale>>
          /\ ball'.vel = <<0, 0>>]_vars

\* Play has resumed after a goal: an out-of-field ball was replaced.
C3_Witness ==
    /\ state = "playing"
    /\ teams["A"] + teams["B"] = 1
    /\ now - goal_time > 2 * TimeScale
    /\ CentreBall(ball)

\* C4: a tick that starts in PAUSED leaves the ball, every player and the
\* score as they are, and either stays in PAUSED or moves to PLAYING having
\* handled the pause key.
C4_PausedFrozen ==
    [][state = "paused" =>
          /\ ball' = ball
          /\ players' = players
          /\ teams' = teams
          /\ \/ state' = "paused"
             \/ state' = "playing" /\ "K_ESCAPE" \in handled']_vars

\* The pause key has just resumed a match (start < now: the match was not
\* started by this tick).
C4_Witness ==
    /\ state = "playing"
    /\ "K_ESCAPE" \in handled
    /\ players # <<>>
    /\ start < now

\* What C5 says can_use decides on.
Usable(p, name) ==
    /\ name \in DOMAIN Skills
    /\ p.flow >= Skills[name].flow_cost * FlowScale
    /\ p.stamina >= Skills[name].stamina_cost
    /\ Get(p.skill_cd, name, 0) <= 0

C6_UseFailsClosed ==
    call.op = "use" /\ ~CanUse(call.pre, call.name) =>
        call.ret = FALSE /\ players[1] = call.pre

\* use has refused a skill the player can pay for, because of its cooldown.
C6_Witness ==
    /\ call.op = "use"
    /\ call.ret = FALSE
    /\ call.name = "Field Vision"
    /\ call.pre.flow >= Skills[call.name].flow_cost * FlowScale
    /\ call.pre.stamina >= Skills[call.name].stamina_cost
    /\ call.pre.skill_cd[call.name] > 0
    /\ players[1] = call.pre

\* C7: after a successful use the skill's cooldown is the skill's defined
\* cooldown, and can_use asked at once refuses a skill whose cooldown is
\* positive.
C7_CooldownStarts ==
    call.op = "use" /\ call.ret = TRUE =>
        /\ call.name \in DOMAIN players[1].skill_cd
        /\ players[1].skill_cd[call.name] = Skills[call.name].cooldown * TimeScale
        /\ (Skills[call.name].cooldown > 0 => ~CanUse(players[1], call.name))

\* Power Shot has just been used with enough left to pay for it again.
C7_Witness ==
    /\ call.op = "use"
    /\ call.ret = TRUE
    /\ call.name = "Power Shot"
    /\ players[1].flow >= Skills[call.name].flow_cost * FlowScale
    /\ players[1].stamina >= Skills[call.name].stamina_cost

\* C8: stamina and flow stay within [0, max] and no cooldown is negative.
C8_ResourcesInRange ==
    \A i \in 1..Len(players) :
        /\ 0 <= players[i].stamina /\ players[i].stamina <= players[i].max_stamina
        /\ 0 <= players[i].flow /\ players[i].flow <= players[i].max_flow
        /\ \A k \in DOMAIN players[i].skill_cd : players[i].skill_cd[k] >= 0

\* An update has hit the cap of flow and the floor of a cooldown, after
\* stamina was spent.
C8_Witness ==
    /\ call.op = "update"
    /\ call.pre.flow < players[1].max_flow
    /\ players[1].flow = players[1].max_flow
    /\ players[1].stamina < players[1].max_stamina
    /\ \E k \in DOMAIN players[1].skill_cd :
            call.pre.skill_cd[k] > 0 /\ players[1].skill_cd[k] = 0

\* [radius, height - radius] holds y for the ball b and the bounds bd.
InField(b, bd, y) == b.radius <= y /\ y <= bd[2] * PosScale - b.radius

\* C9: Ball.update on a ball whose vertical position is in
\* [radius, height - radius] leaves it there, whatever it returns.
C9_VerticalClamped ==
    call.op = "ball_update" /\ InField(call.pre, call.bounds, call.pre.pos[2]) =>
        InField(ball, call.bounds, ball.pos[2])

\* C10: Ball.update returns "B" exactly when the horizontal position after
\* the displacement is below 0, "A" exactly when it is above the width, and
\* no goal otherwise.
C10_GoalStrict ==
    call.op = "ball_update" =>
        LET x == call.pre.pos[1] + Quo(call.pre.vel[1] * call.dt * 60, TimeScale)
            w == call.bounds[1] * PosScale
        IN  /\ ball.pos[1] = x
            /\ (goal = "B" <=> x < 0)
            /\ (goal = "A" <=> x > w)
            /\ (goal = "None" <=> 0 <= x /\ x <= w)

\* A moving ball has landed exactly on the right edge: no goal.
C10_Witness ==
    /\ call.op = "ball_update"
    /\ call.pre.pos[1] < call.bounds[1] * PosScale
    /\ ball.pos[1] = call.bounds[1] * PosScale
    /\ goal = "None"

\* C11: after Player.awaken() called at wall-clock time now, the flow is 0,
\* the stamina equals max_stamina and awakened_until is now plus ten seconds,
\* strictly later than now, whatever the player's state was before the call.
C11_AwakenResets ==
    call.op = "awaken" =>
        /\ players[1].flow = 0
        /\ players[1].stamina = players[1].max_stamina
        /\ players[1].awakened_until = now + 10 * TimeScale
        /\ players[1].awakened_until > now

\* awaken() called on a player with some flow and with stamina spent.
C11_Witness ==
    /\ call.op = "awaken"
    /\ call.pre.flow > 0
    /\ call.pre.stamina < call.pre.max_stamina
    /\ call.pre.awakened_until < now

\* The roster the claim describes: the four AI archetypes, one of each role,
\* each on team A or B and spawned in [100, 700] x [100, 500], followed by
\* one keyboard-controlled striker of team B at (400, 500).
Humans(ps) == {i \in 1..Len(ps) : ps[i].control = "keyboard"}

IsStartRoster(ps) ==
    /\ Len(ps) = 5
    /\ \A i \in 1..4 :
        /\ ps[i].control = "ai"
        /\ ps[i].team \in {"A", "B"}
        /\ 100 * PosScale <= ps[i].pos[1] /\ ps[i].pos[1] <= 700 * PosScale
        /\ 100 * PosScale <= ps[i].pos[2] /\ ps[i].pos[2] <= 500 * PosScale
    /\ \A role \in {"striker", "midfielder", "defender", "goalkeeper"} :
        Cardinality({i \in 1..4 : ps[i].ptype = role}) = 1
    /\ Humans(ps) = {5}
    /\ ps[5].ptype = "striker"
    /\ ps[5].team = "B"
    /\ ps[5].pos = <<400 * PosScale, 500 * PosScale>>

\* C12: a tick that takes the game from Menu to Playing leaves the roster of
\* four AI archetypes plus one human striker of team B at (400, 500) and the
\* score 0:0; and whenever a tick ends in Playing there is exactly one
\* keyboard-controlled player.
C12_StartRoster ==
    [][/\ (state = "menu" /\ state' = "playing") =>
            /\ IsStartRoster(players')
            /\ teams' = [t \in {"A", "B"} |-> 0]
       /\ state' = "playing" => Cardinality(Humans(players')) = 1]_vars

\* The game has just been started from the menu.
C12_Witness ==
    /\ state = "playing"
    /\ start = now
    /\ Len(players) = 5
    /\ players[1].team = "B"
    /\ players[1].pos = <<380 * PosScale, 300 * PosScale>>

\* C13: Player.from_dict(p.to_dict()) raises nothing and returns a player
\* equal to p in name, team, role, control, AI level, position, level, exp,
\* score, max_stamina, max_flow, stamina, flow, cooldown map and
\* awakened-until.
C13_RoundTrip ==
    (call.op = "from_dict" /\ call.arg = ToDict(call.pre)) =>
        /\ call.ret.raised = "None"
        /\ \A k \in {"name", "team", "ptype", "control", "ai_lvl", "pos", "level",
                     "exp", "score", "max_stamina", "max_flow", "stamina", "flow",
                     "skill_cd", "awakened_until"} :
                call.ret.p[k] = call.pre[k]

\* The snapshot of an AI goalkeeper that has moved, with flow, a running
\* cooldown and an awakened period, has been loaded back.
C13_Witness ==
    /\ call.op = "from_dict"
    /\ call.arg = ToDict(call.pre)
    /\ call.pre.ptype = "goalkeeper"
    /\ call.pre.control = "ai"
    /\ call.pre.pos[1] % PosScale # 0
    /\ call.pre.flow > 0
    /\ call.pre.awakened_until > 0
    /\ DOMAIN call.pre.skill_cd # {}

\* C14: Player.from_dict raises nothing on a snapshot with missing keys or
\* unrecognised values, and each such field of the player returned has its
\* default: role striker, control AI, stamina max_stamina, flow 0.
C14_LoadNeverFails ==
    call.op = "from_dict" =>
        LET d == call.arg
            q == call.ret.p
        IN  /\ call.ret.raised = "None"
            /\ Get(d, "ptype", "wizard") \notin PlayerTypeValues => q.ptype = "striker"
            /\ Get(d, "control", "wizard") \notin ControlTypeValues => q.control = "ai"
            /\ "stamina" \notin DOMAIN d => q.stamina = q.max_stamina
            /\ "flow" \notin DOMAIN d => q.flow = 0

\* C15: the position of the human player is always within
\* 12 <= x <= SCREEN_W - 12 and 12 <= y <= SCREEN_H - 12.
C15_HumanInField ==
    \A i \in Humans(players) :
        /\ 12 * PosScale <= players[i].pos[1]
        /\ players[i].pos[1] <= (SCREEN_W - 12) * PosScale
        /\ 12 * PosScale <= players[i].pos[2]
        /\ players[i].pos[2] <= (SCREEN_H - 12) * PosScale

\* The human player has been walked into the bottom right corner.
C15_Witness ==
    /\ call.op = "handle_movement"
    /\ Humans(players) = {5}
    /\ players[5].pos = <<(SCREEN_W - 12) * PosScale, (SCREEN_H - 12) * PosScale>>

\* Whether player p, updated with the ball at b, sets the ball's velocity,
\* and the velocity it sets.
Kicks(p, b) ==
    LET d == Hypot(p.pos[1] - b.pos[1], p.pos[2] - b.pos[2])
    IN  /\ p.control = "ai"
        /\ \/ p.ptype = "striker" /\ d < 50 * PosScale
           \/ p.ptype \in {"midfielder", "goalkeeper"} /\ d < 30 * PosScale

KickVel(p, b) ==
    IF p.ptype = "striker"
    THEN <<(IF p.team = "A" THEN 10 ELSE -10) * PosScale, 0>>
    ELSE <<Quo((p.pos[1] - b.pos[1]) * 12, 100), Quo((p.pos[2] - b.pos[2]) * 12, 100)>>

Kickers(ps, b) == {i \in 1..Len(ps) : Kicks(ps[i], b)}

Last(S) == CHOOSE i \in S : \A j \in S : j <= i

\* C16: in a Playing tick the ball is displaced by the velocity it had when
\* the tick began, the goal is detected on that displaced position, and only
\* then are the players updated in roster order: the velocity the ball has
\* after the tick is the one set by the last player in roster order that set
\* it (the decayed old velocity if none did), and it has not displaced the
\* ball yet.
C16_TickOrder ==
    [][state = "playing" =>
        LET dt == now' - now
            x  == ball.pos[1] + Quo(ball.vel[1] * dt * 60, TimeScale)
            y  == ball.pos[2] + Quo(ball.vel[2] * dt * 60, TimeScale)
            K  == Kickers(players, ball')
        IN  /\ ball'.pos[1] = x
            /\ ball'.pos[2] \in {y, Max(ball.radius, Min(SCREEN_H * PosScale - ball.radius, y))}
            /\ goal' = GoalSide(x, SCREEN_W * PosScale)
            /\ (goal' # "None") = (state' = "goal")
            /\ ball'.vel = IF K = {}
                           THEN <<Quo(ball.vel[1] * ball.friction, 100),
                                  Quo(ball.vel[2] * ball.friction, 100)>>
                           ELSE KickVel(players[Last(K)], ball')]_vars

\* A tick in which the striker and, after it in the roster, the midfielder
\* have both set the velocity of the ball: it is the midfielder's.
C16_Witness ==
    /\ state = "playing"
    /\ start < now
    /\ {1, 2} \subseteq Kickers(players, ball)
    /\ ball.vel = KickVel(players[2], ball)
    /\ ball.vel # KickVel(players[1], ball)

\* C17: an AI striker updated within 50 units of the ball keeps its position
\* in that tick and sets the velocity of the ball to (+10, 0) if it is of
\* team A and to (-10, 0) if it is of team B; a ball that keeps that
\* direction crosses the edge for which Ball.update returns the striker's
\* team.
C17_StrikerKick ==
    [][state = "playing" =>
        \A i \in Kickers(players, ball') :
            players[i].ptype = "striker" =>
                /\ players'[i].pos = players[i].pos
                /\ i = Last(Kickers(players, ball')) =>
                    /\ players[i].team = "A" => ball'.vel = <<10 * PosScale, 0>>
                    /\ players[i].team = "B" => ball'.vel = <<-10 * PosScale, 0>>
                    /\ BallUpdate(ball', 5 * TimeScale, <<SCREEN_W, SCREEN_H>>).ret
                            = players[i].team]_vars

\* The striker of team B, alone within range, has kicked the ball.
C17_Witness ==
    /\ state = "playing"
    /\ start < now
    /\ Kickers(players, ball) = {1}
    /\ players[1].ptype = "striker"
    /\ players[1].team = "B"
    /\ ball.vel = <<-10 * PosScale, 0>>

\* The length of the movement step player i of roster ps makes in a tick at
\* wall-clock time t: for the keyboard player the displacement
\* _handle_movement makes with right held, for an AI player the one _move
\* makes toward a target 100 units to its right.
StepOf(ps, i, t) ==
    IF ps[i].control = "keyboard"
    THEN HandleMovement(ps, {"right"})[i].pos[1] - ps[i].pos[1]
    ELSE Move(ps[i], <<ps[i].pos[1] + 100 * PosScale, ps[i].pos[2]>>, t).pos[1] - ps[i].pos[1]

\* C18: while a player of the match is awakened (wall-clock time before its
\* awakened-until), its movement step per tick is 2.0 longer than the step
\* the same player makes when not awakened; the human player included.
C18_AwakenedFaster ==
    \A i \in 1..Len(players) :
        (/\ now < players[i].awakened_until
         /\ players[i].pos[1] < 700 * PosScale) =>
            StepOf(players, i, now)
                = StepOf([players EXCEPT ![i].awakened_until = 0], i, now) + 2 * PosScale

\* C19: a Menu tick whose events are only navigation keys (up, down) or keys
\* that are neither a start nor a quit action (the skill keys, escape)
\* leaves the state Menu, and only a navigation key changes the highlighted
\* option.
C19_MenuExplicit ==
    [][(/\ state = "menu"
        /\ handled' \subseteq {"K_UP", "K_DOWN", "K_g", "K_1", "K_2", "K_ESCAPE"}) =>
            /\ state' = "menu"
            /\ handled' \cap {"K_UP", "K_DOWN"} = {} => sel' = sel]_vars

\* C20: when use(player, "Awaken") succeeds for a player awakened before,
\* the updates since that awakening have added up to at least 20 seconds of
\* dt, and the earlier awakened period is over. The wall clock advances by
\* the dt of each update and by nothing else, so the time since the earlier
\* awakening (its awakened-until less ten seconds) is that sum of dt.
C20_AwakenSpacing ==
    (call.op = "use" /\ call.name = "Awaken" /\ call.ret) =>
        /\ ~(now < call.pre.awakened_until)
        /\ call.pre.awakened_until > 0 =>
                now - (call.pre.awakened_until - 10 * TimeScale) >= 20 * TimeScale

\* Awaken has succeeded a second time, exactly 20 seconds after the first.
C20_Witness ==
    /\ call.op = "use"
    /\ call.name = "Awaken"
    /\ call.ret
    /\ call.pre.awakened_until > 0
    /\ now - (call.pre.awakened_until - 10 * TimeScale) = 20 * TimeScale
    /\ players[1].awakened_until = now + 10 * TimeScale

=============================================================================
